---- MODULE Spec2Model ----
(***************************************************************************)
(* A model of the UTF-8 batch converter: converter/utils.py (path          *)
(* validation and output-path resolution), converter/converter.py          *)
(* (UTF8Converter: detection, decoding, writing), converter/batch.py       *)
(* (make_converters, batch_processing) and cli.py (the argument surface).  *)
(*                                                                         *)
(* A file name is a record [stem, ext]; ext is what pathlib's .suffix      *)
(* returns for it ("" when the name has no dot).  A path is a sequence of  *)
(* names below the working directory, which is the empty path and always   *)
(* a directory.  The filesystem is the pair (dirs, files): the set of      *)
(* directory paths and a function from file paths to their bytes.          *)
(***************************************************************************)
EXTENDS Integers, Sequences, FiniteSets, TLC

VARIABLES
    dirs,        \* set of paths that are directories
    files,       \* function: path of a regular file -> its bytes
    linesep,     \* os.linesep of the platform: <<10>> or <<13, 10>>
    call,        \* the last PathResolver call and what it returned
    ncalls,      \* number of PathResolver calls made so far
    args,        \* the parsed command line (cli.py)
    phase,       \* where the main thread is
    converters,  \* the list make_converters returned
    fs0,         \* the files when batch_processing was entered
    task,        \* per submitted future: the worker's position and locals
    progress,    \* the tqdm bar's counter
    advanced     \* per future: how many times the bar was advanced for it

vars == <<dirs, files, linesep, call, ncalls, args, phase, converters, fs0,
          task, progress, advanced>>

fsvars == <<dirs, files>>
batchvars == <<args, phase, converters, fs0, task, progress, advanced>>
pathvars == <<call, ncalls>>

(***************************************************************************)
(* Bounds of the model.                                                    *)
(***************************************************************************)
MaxCalls == 2      \* PathResolver calls per behaviour of PathSpec
MaxLen == 3        \* longest source file, in bytes, of ConvSpec
MaxWorkers == 2    \* largest --workers value of Spec

(***************************************************************************)
(* Names and paths.                                                        *)
(***************************************************************************)
N(stem, ext) == [stem |-> stem, ext |-> ext]

None == "None"

\* converter/constants.py is imported by every module; main2.py carries the
\* same two constants inline.
ALLOWED_EXTENSIONS == {".txt"}

\* pathlib: Path.suffix of the last component ("" for the working directory)
suffix(p) == IF p = <<>> THEN "" ELSE p[Len(p)].ext

\* pathlib: Path.name
name(p) == p[Len(p)]

\* pathlib: Path.parent (the parent of "." is ".")
parent(p) == IF p = <<>> THEN <<>> ELSE SubSeq(p, 1, Len(p) - 1)

\* pathlib: dst_path / src.name
joinpath(p, n) == Append(p, n)

\* str.lower on the suffixes the model draws
lower(s) ==
    CASE s = ".TXT" -> ".txt"
      [] s = ".Txt" -> ".txt"
      [] s = ".BIN" -> ".bin"
      [] OTHER -> s

\* p and every ancestor of p
Prefixes(p) == {SubSeq(p, 1, k) : k \in 0..Len(p)}

exists(D, F, p) == p \in D \/ p \in DOMAIN F
is_dir(D, F, p) == p \in D
is_file(D, F, p) == p \in DOMAIN F

\* A filesystem is well formed when the working directory is a directory,
\* nothing is both file and directory and every entry's parent is a directory.
WellFormed(D, F) ==
    /\ <<>> \in D
    /\ D \cap DOMAIN F = {}
    /\ \A p \in D \cup DOMAIN F : parent(p) \in D

\* Path.mkdir(parents=True, exist_ok=True): creates p and its missing
\* ancestors; fails (FileExistsError / NotADirectoryError) and creates
\* nothing when p or an ancestor is a regular file.
mkdir(D, F, p) ==
    IF \E q \in Prefixes(p) : q \in DOMAIN F
    THEN [ok |-> FALSE, dirs |-> D]
    ELSE [ok |-> TRUE, dirs |-> D \cup Prefixes(p)]

(***************************************************************************)
(* converter/utils.py                                                      *)
(***************************************************************************)
\* validate_input_file with the suffix test moved in front of the two
\* existence tests.
validate_input_file_suffix_first(D, F, src) ==
    IF lower(suffix(src)) \notin ALLOWED_EXTENSIONS
         THEN [exc |-> "ValueError", path |-> src]
    ELSE IF ~exists(D, F, src) THEN [exc |-> "FileNotFoundError", path |-> src]
    ELSE IF ~is_file(D, F, src) THEN [exc |-> "IsADirectoryError", path |-> src]
    ELSE [exc |-> None, path |-> src]

\* validate_input_file(src) on filesystem (D, F): the exception raised (None
\* when it returns) and the path returned.  It only asks the filesystem.
validate_input_file(D, F, src) ==
    IF ~exists(D, F, src) THEN [exc |-> "FileNotFoundError", path |-> src]
    ELSE IF ~is_file(D, F, src) THEN [exc |-> "IsADirectoryError", path |-> src]
    ELSE IF lower(suffix(src)) \notin ALLOWED_EXTENSIONS
         THEN [exc |-> "ValueError", path |-> src]
    ELSE [exc |-> None, path |-> src]

\* prepare_output_path without the early rejection (as main2.py has it).
HintRejected_never(dst) == FALSE

\* The early rejection of a hint that carries a suffix outside the allowed set.
HintRejected(dst) ==
    suffix(dst) # "" /\ lower(suffix(dst)) \notin ALLOWED_EXTENSIONS

\* Branch with its first test asking for a regular file instead of a directory.
Branch_isfile(D, F, dst, create_output_dir) ==
    IF exists(D, F, dst) /\ is_file(D, F, dst) THEN 1
    ELSE IF create_output_dir /\ ~exists(D, F, dst) THEN 2
    ELSE 3

\* Branch with its second test ignoring create_output_dir.
Branch_nocreate(D, F, dst, create_output_dir) ==
    IF exists(D, F, dst) /\ is_dir(D, F, dst) THEN 1
    ELSE IF ~exists(D, F, dst) THEN 2
    ELSE 3

\* The branch of the decision table taken for dst: 1, 2 or 3.
Branch(D, F, dst, create_output_dir) ==
    IF exists(D, F, dst) /\ is_dir(D, F, dst) THEN 1
    ELSE IF create_output_dir /\ ~exists(D, F, dst) THEN 2
    ELSE 3

\* The final check on the resolved output file.
OutputRejected(output_file) ==
    lower(suffix(output_file)) \notin ALLOWED_EXTENSIONS

\* prepare_output_path(src, dst, create_output_dir) on filesystem (D, F):
\* the exception raised (None when it returns), the path returned and the
\* directories afterwards.
prepare_output_path(D, F, src, dst, create_output_dir) ==
    IF HintRejected(dst)
    THEN [exc |-> "ValueError", path |-> dst, dirs |-> D]
    ELSE
      LET b == Branch(D, F, dst, create_output_dir)
          made == CASE b = 1 -> [ok |-> TRUE, dirs |-> D]
                    [] b = 2 -> mkdir(D, F, dst)
                    [] OTHER -> mkdir(D, F, parent(dst))
          output_file == IF b = 3 THEN dst ELSE joinpath(dst, name(src))
      IN  IF ~made.ok
          THEN [exc |-> "OSError", path |-> dst, dirs |-> made.dirs]
          ELSE IF OutputRejected(output_file)
          THEN [exc |-> "ValueError", path |-> output_file, dirs |-> made.dirs]
          ELSE [exc |-> None, path |-> output_file, dirs |-> made.dirs]

(***************************************************************************)
(* Bytes, text and codecs.  A byte is a number in 0..255, a text a         *)
(* sequence of code points.  These are the Python codecs and the text-mode *)
(* file layer that Path.read_text and Path.write_text go through.          *)
(***************************************************************************)
LF == 10
CR == 13
BOM == <<239, 187, 191>>

IsCont(b) == b >= 128 /\ b <= 191

\* Width of the UTF-8 sequence that starts b, 0 when b does not start with a
\* well-formed one (strict: no overlong forms, no surrogates, <= U+10FFFF).
utf8_width(b) ==
    LET n == Len(b)
        b1 == b[1]
    IN  IF b1 < 128 THEN 1
        ELSE IF b1 >= 194 /\ b1 <= 223
             THEN IF n >= 2 /\ IsCont(b[2]) THEN 2 ELSE 0
        ELSE IF b1 >= 224 /\ b1 <= 239
             THEN IF /\ n >= 3 /\ IsCont(b[2]) /\ IsCont(b[3])
                     /\ (b1 = 224 => b[2] >= 160)
                     /\ (b1 = 237 => b[2] <= 159)
                  THEN 3 ELSE 0
        ELSE IF b1 >= 240 /\ b1 <= 244
             THEN IF /\ n >= 4 /\ IsCont(b[2]) /\ IsCont(b[3]) /\ IsCont(b[4])
                     /\ (b1 = 240 => b[2] >= 144)
                     /\ (b1 = 244 => b[2] <= 143)
                  THEN 4 ELSE 0
        ELSE 0

utf8_codepoint(b, w) ==
    CASE w = 1 -> b[1]
      [] w = 2 -> (b[1] - 192) * 64 + (b[2] - 128)
      [] w = 3 -> (b[1] - 224) * 4096 + (b[2] - 128) * 64 + (b[3] - 128)
      [] OTHER -> (b[1] - 240) * 262144 + (b[2] - 128) * 4096
                    + (b[3] - 128) * 64 + (b[4] - 128)

RECURSIVE utf8_decode(_)
\* bytes.decode("utf-8"): [ok, text]
utf8_decode(b) ==
    IF b = <<>> THEN [ok |-> TRUE, text |-> <<>>]
    ELSE LET w == utf8_width(b)
         IN  IF w = 0 THEN [ok |-> FALSE, text |-> <<>>]
             ELSE LET rest == utf8_decode(SubSeq(b, w + 1, Len(b)))
                  IN  [ok |-> rest.ok,
                       text |-> <<utf8_codepoint(b, w)>> \o rest.text]

utf8_encode_cp(c) ==
    IF c < 128 THEN <<c>>
    ELSE IF c < 2048 THEN <<192 + (c \div 64), 128 + (c % 64)>>
    ELSE IF c < 65536
         THEN <<224 + (c \div 4096), 128 + ((c \div 64) % 64), 128 + (c % 64)>>
    ELSE <<240 + (c \div 262144), 128 + ((c \div 4096) % 64),
           128 + ((c \div 64) % 64), 128 + (c % 64)>>

RECURSIVE utf8_encode(_)
\* str.encode("utf-8")
utf8_encode(t) ==
    IF t = <<>> THEN <<>> ELSE utf8_encode_cp(t[1]) \o utf8_encode(Tail(t))

\* codecs.lookup: the codec a label names, None for a label that names none.
codec(label) ==
    CASE label \in {"utf-8", "UTF-8", "utf8"} -> "utf-8"
      [] label \in {"utf-8-sig", "UTF-8-SIG"} -> "utf-8-sig"
      [] label \in {"latin-1", "ISO-8859-1", "iso-8859-1"} -> "latin-1"
      [] label \in {"ascii", "ASCII"} -> "ascii"
      [] OTHER -> None

HasBOM(b) == Len(b) >= 3 /\ SubSeq(b, 1, 3) = BOM

\* bytes.decode under codec c: [ok, text]
decode(c, b) ==
    CASE c = "utf-8" -> utf8_decode(b)
      [] c = "utf-8-sig" ->
            utf8_decode(IF HasBOM(b) THEN SubSeq(b, 4, Len(b)) ELSE b)
      [] c = "latin-1" -> [ok |-> TRUE, text |-> b]
      [] OTHER -> [ok |-> \A i \in 1..Len(b) : b[i] < 128,
                   text |-> b]

RECURSIVE universal_newlines(_)
\* Text-mode reading with newline=None: "\r\n" and a lone "\r" become "\n".
universal_newlines(t) ==
    IF t = <<>> THEN <<>>
    ELSE IF t[1] = CR
         THEN <<LF>> \o universal_newlines(
                 IF Len(t) >= 2 /\ t[2] = LF THEN Tail(Tail(t)) ELSE Tail(t))
    ELSE <<t[1]>> \o universal_newlines(Tail(t))

RECURSIVE write_newlines(_, _)
\* Text-mode writing with newline=None: "\n" becomes os.linesep.
write_newlines(t, sep) ==
    IF t = <<>> THEN <<>>
    ELSE (IF t[1] = LF THEN sep ELSE <<t[1]>>) \o write_newlines(Tail(t), sep)

\* chardet.detect(data): the library's answer, as far as the program relies
\* on it: no label for no data, the BOM signature, pure ASCII, well-formed
\* UTF-8, and a single-byte guess for anything else.  Confidence in percent.
chardet_detect(data) ==
    IF data = <<>> THEN [encoding |-> None, confidence |-> 0]
    ELSE IF HasBOM(data) THEN [encoding |-> "UTF-8-SIG", confidence |-> 100]
    ELSE IF \A i \in 1..Len(data) : data[i] < 128
         THEN [encoding |-> "ascii", confidence |-> 100]
    ELSE IF utf8_decode(data).ok THEN [encoding |-> "utf-8", confidence |-> 87]
    ELSE [encoding |-> "ISO-8859-1", confidence |-> 73]

(***************************************************************************)
(* converter/converter.py                                                  *)
(***************************************************************************)
\* UTF8Converter.__init__: the exception raised (None when it returns), the
\* converter and the directories afterwards.
UTF8Converter(D, F, input_file, output_file, sample_size, create, encoding) ==
    LET v == validate_input_file(D, F, input_file)
        o == prepare_output_path(D, F, v.path, output_file, create)
        self == [sample_size |-> sample_size, encoding |-> encoding,
                 input_file |-> v.path, output_file |-> o.path]
    IN  IF v.exc # None THEN [exc |-> v.exc, self |-> self, dirs |-> D]
        ELSE [exc |-> o.exc, self |-> self, dirs |-> o.dirs]

\* Python truth of an optional string: None and "" are false.
Truthy(x) == x # None /\ x # ""

\* A future that has not run: the worker's position and locals.
NewTask == [pc |-> "queued", enc |-> None, confidence |-> 0, text |-> <<>>,
            exc |-> None, sampled |-> FALSE, wrote |-> FALSE,
            collected |-> FALSE]

\* The encoding_confidence property: [enc, confidence, sampled], sampled
\* telling whether bytes of the input file were read.  The stat() and the
\* read that follows it are taken as one step.
encoding_confidence(self, F) ==
    IF Truthy(self.encoding)
    THEN [enc |-> self.encoding, confidence |-> 100, sampled |-> FALSE]
    ELSE LET all == F[self.input_file]
             data == IF Len(all) <= self.sample_size THEN all
                     ELSE SubSeq(all, 1, self.sample_size)
             detected == chardet_detect(data)
         IN  [enc |-> detected.encoding, confidence |-> detected.confidence,
              sampled |-> TRUE]

\* convert(), first step: enc, confidence = self.encoding_confidence and the
\* test "if not enc".
Detect(self, t, F) ==
    LET ec == encoding_confidence(self, F)
    IN  IF ~Truthy(ec.enc)
        THEN [t EXCEPT !.pc = "failed", !.exc = "ValueError",
                       !.sampled = ec.sampled]
        ELSE [t EXCEPT !.pc = "read", !.enc = ec.enc,
                       !.confidence = ec.confidence, !.sampled = ec.sampled]

\* convert(), second step: text = self.input_file.read_text(encoding=enc).
Read(self, t, F) ==
    LET c == codec(t.enc)
        d == decode(c, F[self.input_file])
    IN  IF c = None THEN [t EXCEPT !.pc = "failed", !.exc = "LookupError"]
        ELSE IF ~d.ok THEN [t EXCEPT !.pc = "failed", !.exc = "UnicodeDecodeError"]
        ELSE [t EXCEPT !.pc = "open", !.text = universal_newlines(d.text)]

\* convert(), third step: write_text opens the output file for writing, which
\* creates or truncates it; it fails when the path is a directory or its
\* parent is not one.  [task, files]
Open(self, t, D, F) ==
    IF self.output_file \in D \/ parent(self.output_file) \notin D
    THEN [task |-> [t EXCEPT !.pc = "failed", !.exc = "OSError"], files |-> F]
    ELSE [task |-> [t EXCEPT !.pc = "write", !.wrote = TRUE],
          files |-> [p \in DOMAIN F \cup {self.output_file} |->
                        IF p = self.output_file THEN <<>> ELSE F[p]]]

\* convert(), fourth step: the text, encoded as UTF-8, is written and the
\* file closed.  [task, files]
Write(self, t, F, sep) ==
    [task |-> [t EXCEPT !.pc = "done"],
     files |-> [F EXCEPT ![self.output_file] =
                   utf8_encode(write_newlines(t.text, sep))]]

\* convert() with the output opened before the input is read and decoded.
convert_open_first(self, D, F, sep) ==
    LET t1 == Detect(self, NewTask, F)
        o == Open(self, t1, D, F)
        t2 == IF o.task.pc = "write"
              THEN [Read(self, [o.task EXCEPT !.pc = "read"], o.files)
                        EXCEPT !.wrote = TRUE]
              ELSE o.task
    IN  IF t1.pc = "failed" THEN [task |-> t1, files |-> F]
        ELSE IF t2.pc = "failed" THEN [task |-> t2, files |-> o.files]
        ELSE Write(self, t2, o.files, sep)

\* convert(), run from start to end with no other task in between:
\* [task, files]
convert(self, D, F, sep) ==
    LET t1 == Detect(self, NewTask, F)
        t2 == Read(self, t1, F)
        o == Open(self, t2, D, F)
    IN  IF t1.pc = "failed" THEN [task |-> t1, files |-> F]
        ELSE IF t2.pc = "failed" THEN [task |-> t2, files |-> F]
        ELSE IF o.task.pc = "failed" THEN o
        ELSE Write(self, o.task, o.files, sep)

(***************************************************************************)
(* PathSpec: the PathResolver operations called on a family of             *)
(* filesystems, each call acting on what the calls before it left behind.  *)
(***************************************************************************)
InDir == <<N("in", "")>>
SrcA == <<N("in", ""), N("a", ".txt")>>
SrcB == <<N("in", ""), N("b", ".TXT")>>
SrcC == <<N("in", ""), N("c", ".bin")>>

TopNames == {N("d", ""), N("o", ".txt"), N("o", ".TXT"), N("o", ".bin")}
HintParents == {N("d", ""), N("o", ".txt")}

\* The destination hints PathSpec draws: one or two components.
Hints ==
    {<<n>> : n \in TopNames} \cup {<<m, n>> : m \in HintParents, n \in TopNames}

\* The source arguments PathSpec draws (prepare_output_path reads src.name only).
Sources == {SrcA, SrcB, SrcC}

Idle == [op |-> "none", src |-> <<>>, dst |-> <<>>, create |-> FALSE,
         exc |-> None, path |-> <<>>, pre |-> {}]

\* The batch variables of a behaviour that runs no batch.
NoBatch ==
    /\ args = [src |-> <<>>, dst |-> <<>>, sample_size |-> 0,
               create_output_dir |-> FALSE, encoding |-> None,
               processes |-> FALSE, workers |-> 1]
    /\ phase = "none"
    /\ converters = <<>>
    /\ fs0 = <<>>
    /\ task = <<>>
    /\ progress = 0
    /\ advanced = <<>>

\* The source directory with its three files, and each top-level hint name
\* absent, a regular file or a directory.
PathInit ==
    /\ \E kind \in [TopNames -> {"absent", "file", "dir"}] :
         /\ dirs = {<<>>, InDir} \cup {<<n>> : n \in {m \in TopNames : kind[m] = "dir"}}
         /\ files = [p \in {SrcA, SrcB, SrcC}
                          \cup {<<n>> : n \in {m \in TopNames : kind[m] = "file"}}
                        |-> <<65>>]
    /\ linesep = <<10>>
    /\ call = Idle
    /\ ncalls = 0
    /\ NoBatch

\* One call of prepare_output_path(src, dst, create_output_dir).
PrepareCall(src, dst, create) ==
    LET r == prepare_output_path(dirs, files, src, dst, create)
    IN  /\ ncalls < MaxCalls
        /\ call' = [op |-> "prepare_output_path", src |-> src, dst |-> dst,
                    create |-> create, exc |-> r.exc, path |-> r.path, pre |-> dirs]
        /\ dirs' = r.dirs
        /\ ncalls' = ncalls + 1
        /\ UNCHANGED <<files, linesep>>
        /\ UNCHANGED batchvars

\* The paths validate_input_file is called on: the source files, the source
\* directory and every hint (absent, a file or a directory as the
\* filesystem has it).
Inputs == Sources \cup {InDir} \cup Hints

\* One call of validate_input_file(src).
ValidateCall(src) ==
    LET r == validate_input_file(dirs, files, src)
    IN  /\ ncalls < MaxCalls
        /\ call' = [op |-> "validate_input_file", src |-> src, dst |-> <<>>,
                    create |-> FALSE, exc |-> r.exc, path |-> r.path, pre |-> dirs]
        /\ ncalls' = ncalls + 1
        /\ UNCHANGED <<dirs, files, linesep>>
        /\ UNCHANGED batchvars

PathNext ==
    \/ \E src \in Sources, dst \in Hints, create \in BOOLEAN :
          PrepareCall(src, dst, create)
    \/ \E src \in Inputs : ValidateCall(src)

PathSpec == PathInit /\ [][PathNext]_vars

PathTypeOK == WellFormed(dirs, files)

(***************************************************************************)
(* ConvSpec: one UTF8Converter is constructed and its convert() called,    *)
(* with nothing else running, for every short source file over Alphabet.   *)
(***************************************************************************)
\* LF, CR, "A" and the three bytes of the byte-order mark (which are also a
\* lead byte and two continuation bytes).
Alphabet == {LF, CR, 65, 239, 187, 191}

ByteStrings == UNION {[1..n -> Alphabet] : n \in 0..MaxLen}

\* --sample_size values: one byte, and the default of converter/constants.py
SAMPLE_SIZE == 102400
SampleSizes == {1, SAMPLE_SIZE}

\* -e values: absent, two codecs and a label that names no codec
Encodings == {None, "utf-8", "latin-1", "bogus"}

OutTxt == <<N("o", ".txt")>>

ConvInit ==
    /\ \E content \in ByteStrings, dstkind \in {"absent", "file", "inplace"} :
         /\ dirs = {<<>>, InDir}
         /\ files = IF dstkind = "file"
                    THEN [p \in {SrcA, OutTxt} |->
                             IF p = SrcA THEN content ELSE <<66>>]
                    ELSE [p \in {SrcA} |-> content]
         /\ \E ss \in SampleSizes, e \in Encodings :
              args = [src |-> SrcA,
                      dst |-> IF dstkind = "inplace" THEN InDir ELSE OutTxt,
                      sample_size |-> ss, create_output_dir |-> FALSE,
                      encoding |-> e, processes |-> FALSE, workers |-> 1]
    /\ linesep \in {<<LF>>, <<CR, LF>>}
    /\ call = Idle
    /\ ncalls = 0
    /\ phase = "new"
    /\ converters = <<>>
    /\ fs0 = <<>>
    /\ task = <<>>
    /\ progress = 0
    /\ advanced = <<>>

\* c = UTF8Converter(src, dst, sample_size, create_output_dir, encoding)
Construct ==
    LET r == UTF8Converter(dirs, files, args.src, args.dst, args.sample_size,
                           args.create_output_dir, args.encoding)
    IN  /\ phase = "new"
        /\ dirs' = r.dirs
        /\ IF r.exc = None
           THEN /\ phase' = "constructed"
                /\ converters' = <<r.self>>
                /\ task' = <<NewTask>>
           ELSE /\ phase' = r.exc
                /\ UNCHANGED <<converters, task>>
        /\ fs0' = files
        /\ UNCHANGED <<files, linesep, call, ncalls, args, progress, advanced>>

\* c.convert()
ConvertCall ==
    LET r == convert(converters[1], dirs, files, linesep)
    IN  /\ phase = "constructed"
        /\ phase' = "converted"
        /\ task' = <<r.task>>
        /\ files' = r.files
        /\ UNCHANGED <<dirs, linesep, call, ncalls, args, converters, fs0,
                       progress, advanced>>

ConvNext == Construct \/ ConvertCall

ConvSpec == ConvInit /\ [][ConvNext]_vars

(***************************************************************************)
(* Claims about convert(), checked under ConvSpec.                         *)
(***************************************************************************)
Converted == phase = "converted"

\* The failures of convert() before the write: no label ("if not enc"), a
\* label that names no codec, bytes that do not decode.
FailedBeforeWrite ==
    /\ task[1].pc = "failed"
    /\ task[1].exc \in {"ValueError", "LookupError", "UnicodeDecodeError"}

\* C6: when convert() fails for want of a label or because the source does
\* not decode, every file, the destination included, is as it was before
\* the call (absent if it was absent, its bytes unchanged if it was
\* there), and the output was never opened; the output is opened only
\* after the whole source has been decoded.
C6_FailureLeavesDestination ==
    Converted =>
        /\ FailedBeforeWrite => (files = fs0 /\ ~task[1].wrote)
        /\ task[1].wrote => (task[1].pc = "done" /\ task[1].exc = None)

\* C6 witness: a detected label under which the whole file does not decode
\* (the sample was ASCII, the rest is not), with the destination present.
C6_Witness ==
    /\ Converted /\ task[1].exc = "UnicodeDecodeError" /\ task[1].sampled
    /\ OutTxt \in DOMAIN files /\ files[OutTxt] = <<66>>

\* C6 witness of the other failure: no label for an empty file, and the
\* destination still absent.
C6_WitnessUndetected ==
    /\ Converted /\ task[1].exc = "ValueError" /\ OutTxt \notin DOMAIN files

\* C9: for every source whose bytes are well-formed UTF-8 (carriage
\* returns and a leading byte-order mark included), convert() with the
\* forced label "utf-8" writes a destination whose bytes are the source's
\* bytes.  Stated for the platform whose line separator is "\n".
C9_RoundTrip ==
    (Converted /\ args.encoding = "utf-8" /\ utf8_decode(fs0[SrcA]).ok
        /\ linesep = <<LF>>)
        => /\ task[1].pc = "done"
           /\ files[converters[1].output_file] = fs0[SrcA]

\* What does hold of the round trip: on a platform whose line separator is
\* "\n", a well-formed UTF-8 source without a carriage return comes out
\* byte for byte, a leading byte-order mark included.
RoundTripWithoutCR ==
    (Converted /\ args.encoding = "utf-8" /\ utf8_decode(fs0[SrcA]).ok
        /\ linesep = <<LF>> /\ \A i \in 1..Len(fs0[SrcA]) : fs0[SrcA][i] # CR)
        => /\ task[1].pc = "done"
           /\ files[converters[1].output_file] = fs0[SrcA]

(***************************************************************************)
(* converter/batch.py and cli.py                                           *)
(***************************************************************************)
\* path.glob("*.txt"): the entries of directory src whose name ends in
\* ".txt" (files and directories alike; the match is case-sensitive).
glob_txt(D, F, src) ==
    {p \in D \cup DOMAIN F : p # <<>> /\ parent(p) = src /\ name(p).ext = ".txt"}

\* The orders in which a directory listing can come out.
Orders(S) == {o \in [1..Cardinality(S) -> S] : \A p \in S : \E i \in DOMAIN o : o[i] = p}

RECURSIVE build(_, _, _, _, _, _, _)
\* The list comprehension of make_converters over the listing `order`: the
\* converters are constructed one after the other, each on the directories
\* the one before left, and the first exception ends the build.
build(D, F, order, dst, sample_size, create_output_dir, encoding) ==
    IF order = <<>> THEN [exc |-> None, list |-> <<>>, dirs |-> D]
    ELSE LET c == UTF8Converter(D, F, order[1], dst, sample_size,
                                create_output_dir, encoding)
             rest == build(c.dirs, F, Tail(order), dst, sample_size,
                           create_output_dir, encoding)
         IN  IF c.exc # None THEN [exc |-> c.exc, list |-> <<>>, dirs |-> c.dirs]
             ELSE [exc |-> rest.exc,
                   list |-> IF rest.exc = None THEN <<c.self>> \o rest.list
                            ELSE <<>>,
                   dirs |-> rest.dirs]

\* make_converters(src, dst, sample_size, create_output_dir, encoding), with
\* `order` the directory listing when src is a directory.  The single-file
\* branch does not hand `encoding` on.
make_converters(D, F, src, dst, sample_size, create_output_dir, encoding, order) ==
    IF is_dir(D, F, src)
    THEN build(D, F, order, dst, sample_size, create_output_dir, encoding)
    ELSE build(D, F, <<src>>, dst, sample_size, create_output_dir, None)

\* The except clause narrowed to the one exception convert() raises itself.
Handled_ValueErrorOnly(exc) == exc = "ValueError"

\* "except Exception": every exception convert() raises is an Exception.
Handled(exc) == TRUE

\* progress.update(1) moved from the finally clause to the end of the try
\* body: the bar advances for a future that succeeded only.
Advance_in_try(t) == IF t.exc = None THEN 1 ELSE 0

\* "finally: progress.update(1)": what one yielded future adds to the bar.
Advance(t) == 1

(***************************************************************************)
(* Spec: the command line run from make_converters to the return of        *)
(* batch_processing, the workers' steps interleaved.                       *)
(***************************************************************************)
SrcB2 == <<N("in", ""), N("b", ".txt")>>
DirD == <<N("d", "")>>

\* The contents a source file starts with: empty, "A", "caf\xe9" in Latin-1.
Contents == {<<>>, <<65>>, <<99, 97, 102, 233>>}

\* The -d values of Spec, each with what is there before the run: a
\* directory d that is absent / present / present and holding a directory
\* named a.txt; an absent file o.txt; the source directory itself; and the
\* source file in/a.txt.
DstKinds == {"d_absent", "d_dir", "d_blocked", "o_absent", "indir", "srcA"}

DstOf(k) ==
    CASE k \in {"d_absent", "d_dir", "d_blocked"} -> DirD
      [] k = "o_absent" -> OutTxt
      [] k = "indir" -> InDir
      [] OTHER -> SrcA

DirsOf(k) ==
    {<<>>, InDir}
      \cup (IF k \in {"d_dir", "d_blocked"} THEN {DirD} ELSE {})
      \cup (IF k = "d_blocked" THEN {joinpath(DirD, name(SrcA))} ELSE {})

\* -e values of Spec
BatchEncodings == {None, "utf-8", "latin-1"}

Init ==
    /\ \E k \in DstKinds, ca \in Contents, cb \in Contents :
         /\ dirs = DirsOf(k)
         /\ files = [p \in {SrcA, SrcB2, SrcC} |->
                        IF p = SrcA THEN ca ELSE IF p = SrcB2 THEN cb ELSE <<0>>]
         /\ \E src \in {InDir, SrcA}, cr \in BOOLEAN, e \in BatchEncodings,
               pr \in BOOLEAN, w \in 1..MaxWorkers :
              args = [src |-> src, dst |-> DstOf(k), sample_size |-> SAMPLE_SIZE,
                      create_output_dir |-> cr, encoding |-> e,
                      processes |-> pr, workers |-> w]
    /\ linesep = <<LF>>
    /\ call = Idle
    /\ ncalls = 0
    /\ phase = "start"
    /\ converters = <<>>
    /\ fs0 = <<>>
    /\ task = <<>>
    /\ progress = 0
    /\ advanced = <<>>

\* cli.py: converters = make_converters(...); an exception ends the program,
\* an empty list is reported and nothing is run.
MakeConverters ==
    /\ phase = "start"
    /\ \E order \in Orders(glob_txt(dirs, files, args.src)) :
         \E r \in {make_converters(dirs, files, args.src, args.dst,
                                    args.sample_size, args.create_output_dir,
                                    args.encoding, order)} :
             /\ dirs' = r.dirs
             /\ converters' = r.list
             /\ phase' = IF r.exc # None THEN r.exc
                         ELSE IF r.list = <<>> THEN "empty" ELSE "built"
    /\ UNCHANGED <<files, linesep, call, ncalls, args, fs0, task, progress,
                   advanced>>

\* batch_processing: the executor and the bar are made and every
\* c.convert is submitted.  args.processes chooses the executor class and
\* nothing else: a worker process runs convert() on a copy of the converter
\* against the same filesystem, as a worker thread does on the converter.
Submit ==
    /\ phase = "built"
    /\ phase' = "collecting"
    /\ fs0' = files
    /\ task' = [i \in DOMAIN converters |-> NewTask]
    /\ advanced' = [i \in DOMAIN converters |-> 0]
    /\ progress' = 0
    /\ UNCHANGED <<dirs, files, linesep, call, ncalls, args, converters>>

Running == {i \in DOMAIN task : task[i].pc \in {"detect", "read", "open", "write"}}
Finished(i) == task[i].pc \in {"done", "failed"}

\* The pool runs while batch_processing is inside its with block.
PoolUp == phase \in {"collecting", "raised"}

\* A free worker takes the oldest queued work item.
Start(i) ==
    /\ PoolUp
    /\ task[i].pc = "queued"
    /\ \A j \in 1..(i - 1) : task[j].pc # "queued"
    /\ Cardinality(Running) < args.workers
    /\ task' = [task EXCEPT ![i].pc = "detect"]
    /\ UNCHANGED <<dirs, files, linesep, call, ncalls, args, phase, converters,
                   fs0, progress, advanced>>

DetectStep(i) ==
    /\ PoolUp
    /\ task[i].pc = "detect"
    /\ task' = [task EXCEPT ![i] = Detect(converters[i], task[i], files)]
    /\ UNCHANGED <<dirs, files, linesep, call, ncalls, args, phase, converters,
                   fs0, progress, advanced>>

ReadStep(i) ==
    /\ PoolUp
    /\ task[i].pc = "read"
    /\ task' = [task EXCEPT ![i] = Read(converters[i], task[i], files)]
    /\ UNCHANGED <<dirs, files, linesep, call, ncalls, args, phase, converters,
                   fs0, progress, advanced>>

OpenStep(i) ==
    LET r == Open(converters[i], task[i], dirs, files)
    IN  /\ PoolUp
        /\ task[i].pc = "open"
        /\ task' = [task EXCEPT ![i] = r.task]
        /\ files' = r.files
        /\ UNCHANGED <<dirs, linesep, call, ncalls, args, phase, converters,
                       fs0, progress, advanced>>

WriteStep(i) ==
    LET r == Write(converters[i], task[i], files, linesep)
    IN  /\ PoolUp
        /\ task[i].pc = "write"
        /\ task' = [task EXCEPT ![i] = r.task]
        /\ files' = r.files
        /\ UNCHANGED <<dirs, linesep, call, ncalls, args, phase, converters,
                       fs0, progress, advanced>>

\* One turn of "for future in as_completed(futures)": a finished future not
\* yet yielded is yielded, future.result() re-raises what convert() raised,
\* the except clause logs it, the finally clause advances the bar.  An
\* exception the except clause does not catch leaves the loop.
Collect(i) ==
    /\ phase = "collecting"
    /\ Finished(i)
    /\ ~task[i].collected
    /\ task' = [task EXCEPT ![i].collected = TRUE]
    /\ progress' = progress + Advance(task[i])
    /\ advanced' = [advanced EXCEPT ![i] = @ + Advance(task[i])]
    /\ phase' = IF task[i].exc # None /\ ~Handled(task[i].exc)
                THEN "raised" ELSE phase
    /\ UNCHANGED <<dirs, files, linesep, call, ncalls, args, converters, fs0>>

\* The loop is over and the with block left: batch_processing returns.
Return ==
    /\ phase = "collecting"
    /\ \A i \in DOMAIN task : task[i].collected
    /\ phase' = "returned"
    /\ UNCHANGED <<dirs, files, linesep, call, ncalls, args, converters, fs0,
                   task, progress, advanced>>

Worker(i) == Start(i) \/ DetectStep(i) \/ ReadStep(i) \/ OpenStep(i) \/ WriteStep(i)
Workers == \E i \in DOMAIN task : Worker(i)

Next ==
    \/ MakeConverters
    \/ Submit
    \/ \E i \in DOMAIN task :
          \/ Start(i)
          \/ DetectStep(i)
          \/ ReadStep(i)
          \/ OpenStep(i)
          \/ WriteStep(i)
          \/ Collect(i)
    \/ Return

Spec == Init /\ [][Next]_vars

\* The runs of Spec over a directory source into the directory d, present
\* (and, for one of the two, holding a directory named a.txt).
FairInit ==
    /\ Init
    /\ args.src = InDir
    /\ args.dst = DirD
    /\ DirD \in dirs
    /\ ~args.create_output_dir

\* The main thread inside batch_processing.
BatchLoop == Submit \/ (\E i \in DOMAIN task : Collect(i)) \/ Return

\* Inside batch_processing every thread that can take a step eventually
\* takes one: the main thread its loop, the pool's workers their tasks.
FairSpec == FairInit /\ [][Next]_vars /\ WF_vars(BatchLoop) /\ WF_vars(Workers)

(***************************************************************************)
(* Claims about the batch, checked under Spec and FairSpec.                *)
(***************************************************************************)
InBatch == phase \in {"collecting", "returned"}
Collected == {i \in DOMAIN task : task[i].collected}

\* C1: under every interleaving and every mix of succeeding and failing
\* convert() calls, the bar is advanced once for each future that has been
\* yielded and not at all for the others, never twice for one, and when
\* batch_processing returns it has been advanced exactly N times for the N
\* converters it was given.
C1_AdvancedOncePerTask ==
    InBatch =>
        /\ \A i \in DOMAIN task : advanced[i] = IF task[i].collected THEN 1 ELSE 0
        /\ progress = Cardinality(Collected)
        /\ phase = "returned" =>
              (progress = Len(converters) /\ \A i \in DOMAIN task : advanced[i] = 1)

\* C1 witness: a batch of two has returned, one convert() succeeded and one
\* failed, and the bar stands at two.
C1_Witness ==
    /\ phase = "returned" /\ Len(converters) = 2 /\ progress = 2
    /\ \E i, j \in DOMAIN task : task[i].pc = "done" /\ task[j].pc = "failed"

\* C2: an exception of one convert() is caught for that future only: no
\* exception leaves batch_processing, when it returns every submitted task
\* has run to its end (succeeded or failed), and once the tasks are
\* submitted batch_processing eventually returns.
C2_FailureIsolated ==
    /\ [](phase # "raised")
    /\ [](phase = "returned" => \A i \in DOMAIN task : Finished(i))
    /\ (phase = "collecting") ~> (phase = "returned")

\* C2 witness: the failure of one task (its bytes do not decode) has been
\* collected while its sibling is still between opening and writing its
\* output.
C2_Witness ==
    /\ phase = "collecting"
    /\ \E i, j \in DOMAIN task :
          /\ task[i].exc = "UnicodeDecodeError" /\ task[i].collected
          /\ task[j].pc = "write"

\* C2 witness of the end: the batch returned with one task failed on
\* writing and the other succeeded.
C2_WitnessReturned ==
    /\ phase = "returned"
    /\ \E i, j \in DOMAIN task : task[i].exc = "OSError" /\ task[j].pc = "done"

\* C3: the output paths of the converters make_converters built are
\* pairwise distinct.
C3_DistinctDestinations ==
    phase \in {"built", "collecting", "returned"} =>
        \A i, j \in DOMAIN converters :
            i # j => converters[i].output_file # converters[j].output_file

RECURSIVE seq_outcomes(_, _, _, _)
\* The outcomes (the exception of each convert(), None for success) of
\* running the converters one after the other in list order.
seq_outcomes(cs, D, F, sep) ==
    IF cs = <<>> THEN <<>>
    ELSE LET r == convert(cs[1], D, F, sep)
         IN  <<r.task.exc>> \o seq_outcomes(Tail(cs), D, r.files, sep)

Outcomes == [i \in DOMAIN task |-> task[i].exc]

\* C4: whatever the mode, the worker count and the interleaving, the
\* per-task outcomes of a batch are those of running the same task list in
\* order on the same initial filesystem.
C4_SameOutcomes ==
    phase = "returned" => Outcomes = seq_outcomes(converters, dirs, fs0, linesep)

\* What does hold: when the output paths are pairwise distinct, the outcomes
\* are those of the run in order, for both modes and every worker count.
DistinctThenSameOutcomes ==
    (phase = "returned"
        /\ \A i, j \in DOMAIN converters :
              i # j => converters[i].output_file # converters[j].output_file)
        => Outcomes = seq_outcomes(converters, dirs, fs0, linesep)

\* C5: with a forced label on the command line, every task that is past
\* detection uses that label with confidence 1.0 and has read no sample.
C5_ForcedEncodingUsed ==
    \A i \in DOMAIN task :
        (Truthy(args.encoding) /\ task[i].pc \notin {"queued", "detect"})
            => /\ task[i].enc = args.encoding
               /\ task[i].confidence = 100
               /\ ~task[i].sampled

\* What does hold: the tasks built from a directory source use the label.
ForcedEncodingUsedForDirectory ==
    \A i \in DOMAIN task :
        (Truthy(args.encoding) /\ args.src = InDir
            /\ task[i].pc \notin {"queued", "detect"})
            => /\ task[i].enc = args.encoding
               /\ task[i].confidence = 100
               /\ ~task[i].sampled

(***************************************************************************)
(* Claims about prepare_output_path, checked under PathSpec.               *)
(***************************************************************************)
Prepared == call.op = "prepare_output_path"
ValidSource(src) == lower(suffix(src)) \in ALLOWED_EXTENSIONS
Allowed(p) == lower(suffix(p)) \in ALLOWED_EXTENSIONS
\* what the same call returns with the other value of create_output_dir
OtherFlag == prepare_output_path(call.pre, files, call.src, call.dst, ~call.create)
\* what the same call returns when made again now
Again == prepare_output_path(dirs, files, call.src, call.dst, call.create)
Returned(r, p) == r.exc = None /\ r.path = p

\* C7 as stated: for every valid source and every hint that exists and is
\* a directory, whatever the directory's name, the call returns
\* hint/<source file name>, for both flag values and on a repeated call.
C7_ExistingDirAnyName ==
    (Prepared /\ ValidSource(call.src) /\ call.dst \in call.pre)
        => /\ Returned(call, joinpath(call.dst, name(call.src)))
           /\ Returned(OtherFlag, joinpath(call.dst, name(call.src)))
           /\ Returned(Again, joinpath(call.dst, name(call.src)))

\* C7 amended: for every valid source and every hint that exists and is a
\* directory whose name carries no suffix or an allowed suffix, the call
\* returns hint/<source file name> and creates nothing, returns the same for
\* the other flag value and on a repeated call; an existing directory whose
\* name carries a disallowed suffix is rejected with ValueError.
C7_ExistingDir ==
    (Prepared /\ ValidSource(call.src) /\ call.dst \in call.pre)
        => IF suffix(call.dst) = "" \/ Allowed(call.dst)
           THEN /\ Returned(call, joinpath(call.dst, name(call.src)))
                /\ Returned(OtherFlag, joinpath(call.dst, name(call.src)))
                /\ Returned(Again, joinpath(call.dst, name(call.src)))
                /\ dirs = call.pre
           ELSE call.exc = "ValueError" /\ dirs = call.pre

\* C7 witness: a call on an existing directory whose name carries the
\* suffix .txt returned the path inside it.
C7_Witness ==
    /\ Prepared /\ call.dst \in call.pre /\ suffix(call.dst) = ".txt"
    /\ call.exc = None /\ call.path = joinpath(call.dst, name(call.src))
    /\ ncalls = 2

\* C8 as stated: every hint whose suffix is not in the allowed set is
\* rejected with ValueError, whatever the flag and whatever exists.
C8_NotAllowedRejected ==
    (Prepared /\ ~Allowed(call.dst)) => call.exc = "ValueError"

\* C8 amended: every hint that carries a suffix (a non-empty one) outside
\* the allowed set, compared case-insensitively, is rejected with ValueError
\* and nothing is created, whatever the flag and whether the hint is absent, a
\* file or a directory; and every call that returns, returns a path with an
\* allowed extension.
C8_DisallowedRejected ==
    Prepared =>
        /\ (suffix(call.dst) # "" /\ ~Allowed(call.dst))
              => (call.exc = "ValueError" /\ dirs = call.pre)
        /\ call.exc = None => Allowed(call.path)

\* C8 witness: a hint named *.bin that exists as a directory was rejected
\* with create_output_dir set.
C8_Witness ==
    /\ Prepared /\ suffix(call.dst) = ".bin" /\ call.dst \in call.pre
    /\ call.create /\ call.exc = "ValueError"

\* No ancestor of p is a regular file.
Reachable(p) == \A q \in Prefixes(parent(p)) : q \notin DOMAIN files

\* C10 as stated: for a hint that does not exist, with the flag the hint is
\* created as a directory and hint/<source file name> returned; without it
\* only the hint's parent is created and the hint itself returned.
C10_AbsentHintAnySuffix ==
    (Prepared /\ ValidSource(call.src) /\ Reachable(call.dst)
        /\ ~exists(call.pre, files, call.dst))
        => IF call.create
           THEN /\ Returned(call, joinpath(call.dst, name(call.src)))
                /\ dirs = call.pre \cup Prefixes(call.dst)
           ELSE /\ Returned(call, call.dst)
                /\ dirs = call.pre \cup Prefixes(parent(call.dst))

\* C10 amended: for a valid source and a hint that does not exist and has
\* no regular file among its ancestors: with the flag and a hint suffix that
\* is empty or allowed, the hint is created as a directory (with parents)
\* and hint/<source file name> returned; without the flag and with an
\* allowed hint suffix, only the hint's parent is created (with parents),
\* the hint is not, and the hint itself is returned.  A hint with a
\* disallowed non-empty suffix is rejected with ValueError and nothing is
\* created; without the flag a hint with no suffix has its parent created
\* and is then rejected with ValueError.
C10_AbsentHint ==
    (Prepared /\ ValidSource(call.src) /\ Reachable(call.dst)
        /\ ~exists(call.pre, files, call.dst))
        => CASE suffix(call.dst) # "" /\ ~Allowed(call.dst) ->
                  call.exc = "ValueError" /\ dirs = call.pre
             [] call.create /\ (suffix(call.dst) = "" \/ Allowed(call.dst)) ->
                  /\ Returned(call, joinpath(call.dst, name(call.src)))
                  /\ dirs = call.pre \cup Prefixes(call.dst)
             [] ~call.create /\ Allowed(call.dst) ->
                  /\ Returned(call, call.dst)
                  /\ dirs = call.pre \cup Prefixes(parent(call.dst))
                  /\ call.dst \notin dirs
             [] OTHER ->
                  /\ call.exc = "ValueError"
                  /\ dirs = call.pre \cup Prefixes(parent(call.dst))

\* C10 witness: without the flag, a two-component hint whose parent was
\* absent was returned unchanged and only its parent created.
C10_Witness ==
    /\ Prepared /\ ~call.create /\ Len(call.dst) = 2
    /\ parent(call.dst) \notin call.pre /\ parent(call.dst) \in dirs
    /\ call.dst \notin dirs /\ Returned(call, call.dst)

\* C10 witness of the other row: with the flag, an absent hint was created
\* as a directory and the path inside it returned.
C10_WitnessCreate ==
    /\ Prepared /\ call.create /\ call.dst \notin call.pre /\ call.dst \in dirs
    /\ Returned(call, joinpath(call.dst, name(call.src)))

(***************************************************************************)
(* Claims about validate_input_file, checked under PathSpec.               *)
(***************************************************************************)
Validated == call.op = "validate_input_file"

\* C11: validate_input_file fails with the first that applies of
\* FileNotFoundError (the path does not exist), IsADirectoryError (it
\* exists and is a directory) and ValueError (its suffix, lowercased, is not
\* in the allowed set); otherwise it returns the path it was given; and in
\* every case the directories are what they were before the call.
C11_ValidateOrder ==
    Validated =>
        /\ call.exc =
              (CASE call.src \notin call.pre \cup DOMAIN files -> "FileNotFoundError"
                 [] call.src \in call.pre -> "IsADirectoryError"
                 [] suffix(call.src) \notin {".txt", ".TXT"} -> "ValueError"
                 [] OTHER -> None)
        /\ call.exc = None => call.path = call.src
        /\ dirs = call.pre

\* C11 witness: a directory whose name carries a disallowed suffix was
\* refused as a directory, not for its suffix.
C11_Witness ==
    /\ Validated /\ call.src \in call.pre /\ suffix(call.src) = ".bin"
    /\ call.exc = "IsADirectoryError"

\* C11 witness of the other rows: an absent *.bin is not found, a file
\* *.bin is refused for its suffix, a file *.TXT is returned as given.
C11_WitnessNotFound ==
    /\ Validated /\ suffix(call.src) = ".bin" /\ call.exc = "FileNotFoundError"

C11_WitnessSuffix ==
    /\ Validated /\ call.src \in DOMAIN files /\ call.exc = "ValueError"

C11_WitnessReturned ==
    /\ Validated /\ suffix(call.src) = ".TXT" /\ call.exc = None
    /\ call.path = call.src

====
